---------------------------- MODULE Spec2Model ----------------------------
(***************************************************************************)
(* Model of src/automation.py (OTMS pre-enrolment auto-fill).              *)
(*                                                                         *)
(*   - the Field Setter (fill_text_with_retry, select_with_retry) as pure  *)
(*     operators over a scripted page, explored by SpecSetter;             *)
(*   - the session: the Tk GUI thread (App.run, on_pause_resume, on_stop,  *)
(*     the after() callback queue) and the worker threads running          *)
(*     App._selenium_task / fill_otms_form, explored by Spec (one Fill     *)
(*     Form click), SpecSession (several) and FairSpec (Spec with the      *)
(*     scheduling of the threads).                                         *)
(*                                                                         *)
(* Text is a sequence of one-character strings, so that strip(), lower()   *)
(* and substring tests are computed as the code computes them.             *)
(***************************************************************************)
EXTENDS Integers, Sequences, FiniteSets, TLC

VARIABLES
    \* ---- session state (App) ----
    pause_event,    \* threading.Event: TRUE = set = running, FALSE = paused
    stop_event,     \* threading.Event: TRUE = stop requested
    pause_btn,      \* [state, text] of the Pause/Resume button
    stop_btn,       \* state of the Stop button
    status_var,     \* text shown on the status line
    afterQ,         \* callbacks scheduled with self.after(0, ...), FIFO
    runs_left,      \* Fill Form clicks the session will still see
    \* ---- per worker thread ----
    pc,             \* position of the worker in _selenium_task/fill_otms_form
    row,            \* the spreadsheet row handed to the worker
    url,            \* whether the Target URL entry is non-empty
    fs,             \* what the base folder holds for the row's person
    slot,           \* index into uploads (document slots)
    fld,            \* index into mapping (fields)
    phase,          \* the orchestrator's state (spec 4.4), for the record
    oplog,          \* operations started by the worker, in order
    lastop,         \* outcome of the upload or field operation just finished
    emitted,        \* the last status the worker passed to status_cb/set_status
    direct,         \* GUI calls the worker made on its own thread
    stop_seen,      \* stop_event was set when the upload phase began, and has
                    \* not been cleared since
    \* ---- Field Setter call (SpecSetter) ----
    call,           \* the arguments and page script of one Field Setter call
    outcome         \* what the call produced

vars == << pause_event, stop_event, pause_btn, stop_btn, status_var, afterQ,
           runs_left, pc, row, url, fs, slot, fld, phase, oplog, lastop,
           emitted, direct, stop_seen, call, outcome >>

sessionVars == << pause_event, stop_event, pause_btn, stop_btn, status_var,
                  afterQ, runs_left, pc, row, url, fs, slot, fld, phase, oplog,
                  lastop, emitted, direct, stop_seen >>

guiVars == << pause_event, stop_event, pause_btn, stop_btn, status_var >>

setterVars == << call, outcome >>

-----------------------------------------------------------------------------
(* Text helpers *)

None == "None"

Char == {"a", "A", "b", "B", " "}

lower_char(c) == IF c = "A" THEN "a" ELSE IF c = "B" THEN "b" ELSE c

upper_char(c) == IF c = "a" THEN "A" ELSE IF c = "b" THEN "B" ELSE c

\* str.lower()
lower(s) == [i \in 1..Len(s) |-> lower_char(s[i])]

\* str.upper(), used by a page that re-cases its input
upper(s) == [i \in 1..Len(s) |-> upper_char(s[i])]

RECURSIVE lstrip(_)
lstrip(s) == IF s # <<>> /\ Head(s) = " " THEN lstrip(Tail(s)) ELSE s

RECURSIVE rstrip(_)
rstrip(s) ==
    IF s # <<>> /\ s[Len(s)] = " " THEN rstrip(SubSeq(s, 1, Len(s) - 1)) ELSE s

\* str.strip()
strip(s) == lstrip(rstrip(s))

\* Python's "a in b" on strings
contains(a, b) ==
    \E i \in 0..(Len(b) - Len(a)) : SubSeq(b, i + 1, i + Len(a)) = a


-----------------------------------------------------------------------------
(* Field Setter: fill_text_with_retry *)

\* retries=3, the default of fill_text_with_retry and select_with_retry
retries == 3

\* How the page treats typed input: it may keep it, re-case it, pad it with
\* a trailing blank, or silently reject it.
Accepts == {"keep", "upper", "pad", "reject"}

\* el.clear(); el.send_keys(value): the content of the element afterwards
send_keys(accept, value) ==
    CASE accept = "keep"   -> value
      [] accept = "upper"  -> upper(value)
      [] accept = "pad"    -> value \o <<" ">>
      [] accept = "reject" -> <<>>

\* One attempt's page behaviour.  fail: the exception class raised ("none":
\* every operation succeeded); at: the operation that raised it; idle: the
\* outcome of the wait_dom_idle that follows a staleness/timeout failure.
\* by_label_input wraps every failure in RuntimeError, so a failure at
\* "locate" is always of class "other".
Transient == {"stale", "timeout"}

TextAttempts ==
    { [fail |-> "none", at |-> "read", idle |-> "ok"],
      [fail |-> "other", at |-> "locate", idle |-> "ok"] }
    \cup { [fail |-> f, at |-> a, idle |-> i] :
             f \in Transient, a \in {"pre", "send", "read"},
             i \in {"ok", "timeout"} }
    \cup { [fail |-> "other", at |-> a, idle |-> "ok"] :
             a \in {"pre", "send", "read"} }

\* wait_dom_idle: returns when document.readyState is complete, raises
\* TimeoutException otherwise
wait_dom_idle(idle) == IF idle = "ok" THEN "returns" ELSE "TimeoutException"

\* by_label_input: the element, or RuntimeError once every XPath has failed
by_label_input(b) == IF b.at = "locate" THEN "RuntimeError" ELSE "el"

\* str(v).strip() == str(value).strip()
readback_matches_nocase(v, value) == lower(strip(v)) = lower(strip(value))

\* the same, with the read-back taken for granted
readback_matches_unverified(v, value) == TRUE

readback_matches(v, value) == strip(v) = strip(value)

\* the same, had el.clear() (line 55) been left out: the typed text is
\* appended to the content
text_page_after_without_clear(b, accept, value, page) ==
    IF b.fail # "none" /\ b.at \in {"locate", "pre"} THEN page
    ELSE IF b.fail # "none" /\ b.at = "send" THEN page
    ELSE page \o send_keys(accept, value)

\* the element's content after the attempt's clear/send_keys
text_page_after(b, accept, value, page) ==
    IF b.fail # "none" /\ b.at \in {"locate", "pre"} THEN page
    ELSE IF b.fail # "none" /\ b.at = "send" THEN <<>>
    ELSE send_keys(accept, value)

RECURSIVE fill_text_loop(_, _, _, _, _, _)
fill_text_loop(attempt, value, accept, script, page, last_err) ==
    IF attempt > retries
    THEN \* attempts exhausted: print [WARN], return False
         [ret |-> "False", warn |-> TRUE, last_err |-> last_err,
          page |-> page, attempts |-> retries, read |-> FALSE, v |-> <<>>]
    ELSE
      LET b  == script[attempt]
          pg == text_page_after(b, accept, value, page)
      IN
        IF by_label_input(b) = "RuntimeError" \/ b.fail = "other"
        THEN \* except Exception: break
             [ret |-> "False", warn |-> TRUE,
              last_err |-> IF b.at = "locate" THEN "RuntimeError" ELSE "other",
              page |-> pg, attempts |-> attempt, read |-> FALSE, v |-> <<>>]
        ELSE IF b.fail \in Transient
        THEN \* except (Stale, Timeout): sleep, wait_dom_idle, continue
             IF wait_dom_idle(b.idle) = "TimeoutException"
             THEN [ret |-> "raise", warn |-> FALSE,
                   last_err |-> "TimeoutException", page |-> pg,
                   attempts |-> attempt, read |-> FALSE, v |-> <<>>]
             ELSE fill_text_loop(attempt + 1, value, accept, script, pg, b.fail)
        ELSE \* verify
             IF readback_matches(pg, value)
             THEN [ret |-> "True", warn |-> FALSE, last_err |-> last_err,
                   page |-> pg, attempts |-> attempt, read |-> TRUE, v |-> pg]
             ELSE fill_text_loop(attempt + 1, value, accept, script, pg, last_err)

fill_text_with_retry(value, accept, script, page) ==
    fill_text_loop(1, value, accept, script, page, None)


-----------------------------------------------------------------------------
(* Field Setter: select_with_retry *)

\* next((o for o in options if ...), None): the index of the first TRUE of
\* hit, 0 when there is none
first_option(hit) ==
    IF \E i \in 1..Len(hit) : hit[i]
    THEN CHOOSE i \in 1..Len(hit) : hit[i] /\ \A j \in 1..(i - 1) : ~hit[j]
    ELSE 0

\* Select.select_by_visible_text(text): the first option whose visible text
\* is text; 0 stands for NoSuchElementException
select_by_visible_text(options, text) ==
    first_option([i \in 1..Len(options) |-> options[i] = text])

\* lines 81-84: match, as [found, text]; found = FALSE is Python's None
fuzzy_match_substring_first(options, value) ==
    LET texts  == [i \in 1..Len(options) |-> strip(options[i])]
        s      == first_option([i \in 1..Len(texts) |->
                                    contains(lower(value), lower(texts[i]))])
    IN  IF s # 0 THEN [found |-> TRUE, text |-> texts[s]]
        ELSE [found |-> FALSE, text |-> <<>>]

fuzzy_match(options, value) ==
    LET texts  == [i \in 1..Len(options) |-> strip(options[i])]
        c      == first_option([i \in 1..Len(texts) |->
                                    lower(texts[i]) = lower(value)])
        s      == first_option([i \in 1..Len(texts) |->
                                    contains(lower(value), lower(texts[i]))])
        first  == IF c # 0 THEN [found |-> TRUE, text |-> texts[c]]
                  ELSE [found |-> FALSE, text |-> <<>>]
    IN  \* "if not match": None or the empty string
        IF first.found /\ first.text # <<>> THEN first
        ELSE IF s # 0 THEN [found |-> TRUE, text |-> texts[s]]
        ELSE [found |-> FALSE, text |-> <<>>]

\* lines 78-86: what the selection stage does to the control.
\*   sel: the selected option afterwards (0: none); err: an exception left
\*   the stage (the second select_by_visible_text found nothing);
\*   how: which match applied.
apply_selection(options, selected, value) ==
    LET exact == select_by_visible_text(options, value)
        match == fuzzy_match(options, value)
        again == select_by_visible_text(options, match.text)
    IN  IF exact # 0
        THEN [sel |-> exact, err |-> FALSE, how |-> "exact"]
        ELSE IF match.found /\ match.text # <<>>   \* "if match:"
        THEN IF again # 0
             THEN [sel |-> again, err |-> FALSE, how |-> "fuzzy"]
             ELSE [sel |-> selected, err |-> TRUE, how |-> "none"]
        ELSE [sel |-> selected, err |-> FALSE, how |-> "none"]

\* One attempt's page behaviour for a select; at: "locate" (by_label_select),
\* "select" (an operation of lines 78-86 outside the inner try) or "read"
\* (first_selected_option).
SelectAttempts ==
    { [fail |-> "none", at |-> "read", idle |-> "ok"],
      [fail |-> "other", at |-> "locate", idle |-> "ok"] }
    \cup { [fail |-> f, at |-> a, idle |-> i] :
             f \in Transient, a \in {"select", "read"}, i \in {"ok", "timeout"} }
    \cup { [fail |-> "other", at |-> a, idle |-> "ok"] : a \in {"select", "read"} }

\* by_label_select: the Select, or RuntimeError once every XPath has failed
by_label_select(b) == IF b.at = "locate" THEN "RuntimeError" ELSE "sel"

\* "if chosen:" with chosen = sel.first_selected_option.text.strip()
selection_verified(chosen, value) == chosen # <<>>

RECURSIVE select_loop(_, _, _, _, _, _)
select_loop(attempt, value, options, script, selected, last_err) ==
    IF attempt > retries
    THEN [ret |-> "False", warn |-> TRUE, last_err |-> last_err,
          selected |-> selected, attempts |-> retries, how |-> "none"]
    ELSE
      LET b   == script[attempt]
          ap  == apply_selection(options, selected, value)
          \* the selection is applied unless an earlier operation raised
          done == ~(b.fail # "none" /\ b.at \in {"locate", "select"})
          sel == IF done THEN ap.sel ELSE selected
      IN
        IF by_label_select(b) = "RuntimeError" \/ b.fail = "other"
           \/ (done /\ ap.err)
           \/ (b.fail = "none" /\ sel = 0)   \* first_selected_option: nothing selected
        THEN \* except Exception: break
             [ret |-> "False", warn |-> TRUE,
              last_err |-> IF b.at = "locate" THEN "RuntimeError" ELSE "other",
              selected |-> sel, attempts |-> attempt, how |-> "none"]
        ELSE IF b.fail \in Transient
        THEN IF wait_dom_idle(b.idle) = "TimeoutException"
             THEN [ret |-> "raise", warn |-> FALSE,
                   last_err |-> "TimeoutException", selected |-> sel,
                   attempts |-> attempt, how |-> "none"]
             ELSE select_loop(attempt + 1, value, options, script, sel, b.fail)
        ELSE IF selection_verified(strip(options[sel]), value)
             THEN [ret |-> "True", warn |-> FALSE, last_err |-> last_err,
                   selected |-> sel, attempts |-> attempt, how |-> ap.how]
             ELSE select_loop(attempt + 1, value, options, script, sel, last_err)

select_with_retry(value, options, script, selected) ==
    select_loop(1, value, options, script, selected, None)


-----------------------------------------------------------------------------
(* SpecSetter: one Field Setter call on a scripted page *)

\* longest option list of a select control
MaxOptions == 2

TextValues == { <<>>, <<"a">>, <<"a", " ">>, <<"A", "b">> }

OptionTexts == { <<>>, <<"a">>, <<"A">>, <<"B">>, <<"b", "A">>, <<"B", " ", "a">> }

SelectValues == { <<"a">>, <<"A">>, <<"b">> }

OptionLists == UNION { [1..n -> OptionTexts] : n \in 0..MaxOptions }

AllOk == [fail |-> "none", at |-> "read", idle |-> "ok"]

\* every script of a call: one behaviour per attempt
Scripts(attempts) == [1..retries -> attempts]

\* scripts whose first attempt varies and whose later attempts succeed
FirstAttemptScripts(attempts) ==
    { [i \in 1..retries |-> IF i = 1 THEN b ELSE AllOk] : b \in attempts }

TextCalls ==
    { [fn |-> "text", value |-> v, accept |-> a, script |-> sc, page |-> <<>>] :
        v \in TextValues, a \in Accepts, sc \in Scripts(TextAttempts) }

\* the selection initially shown by a drop-down: any one of its options
InitialSelections(options) == IF options = <<>> THEN {0} ELSE 1..Len(options)

ShellOptionLists ==
    { << <<"B">>, <<"a">> >>, << <<>>, <<"B">> >>, << <<"b", "A">> >>, <<>> }

SelectCalls ==
    { [fn |-> "select", value |-> v, options |-> o, script |-> sc, selected |-> s0] :
        v \in SelectValues, o \in OptionLists,
        sc \in FirstAttemptScripts(SelectAttempts), s0 \in 0..MaxOptions }
    \cup
    { [fn |-> "select", value |-> <<"a">>, options |-> o, script |-> sc, selected |-> s0] :
        o \in ShellOptionLists, sc \in Scripts(SelectAttempts), s0 \in {0, 1} }

ValidCall(c) ==
    c.fn = "select" => c.selected \in InitialSelections(c.options)

NoCall == [fn |-> "none"]

NoOutcome == [done |-> FALSE]

CallText ==
    /\ call.fn = "text"
    /\ ~outcome.done
    /\ outcome' = [done |-> TRUE,
                   res |-> fill_text_with_retry(call.value, call.accept,
                                                call.script, call.page)]
    /\ UNCHANGED << call, sessionVars >>

CallSelect ==
    /\ call.fn = "select"
    /\ ~outcome.done
    /\ outcome' = [done |-> TRUE,
                   res |-> select_with_retry(call.value, call.options,
                                             call.script, call.selected)]
    /\ UNCHANGED << call, sessionVars >>

NextSetter == CallText \/ CallSelect


-----------------------------------------------------------------------------
(* fill_otms_form: its tables and inputs *)

\* Fill Form clicks in a session explored by Spec
MaxRuns == 1

\* Fill Form clicks in a session explored by SpecSession
SessionRuns == 2

\* most callbacks waiting in Tk's after() queue
MaxQ == 1

MaxWorkers == IF MaxRuns > SessionRuns THEN MaxRuns ELSE SessionRuns

Workers == 1..MaxWorkers

\* mapping: label -> (type, source column), in insertion order
mapping == <<
    [label |-> "Name as in IC/Passport",  type |-> "text",   col |-> "name in ic/passport"],
    [label |-> "Sex",                     type |-> "select", col |-> "sex"],
    [label |-> "Country of Birth",        type |-> "select", col |-> "nationality"],
    [label |-> "State/Province of Birth", type |-> "select", col |-> "province of birth"],
    [label |-> "Place of Birth",          type |-> "text",   col |-> "place of township"],
    [label |-> "IC Number",               type |-> "text",   col |-> "ic number"],
    [label |-> "Passport Number",         type |-> "text",   col |-> "passport number"],
    [label |-> "Date of Issue",           type |-> "text",   col |-> "passport date of issue"],
    [label |-> "Date of Expiry",          type |-> "text",   col |-> "passport date of expiry"],
    [label |-> "Date of Birth",           type |-> "text",   col |-> "date of birth"],
    [label |-> "Father's Name",           type |-> "text",   col |-> "father name"],
    [label |-> "Mother's Name",           type |-> "text",   col |-> "mother name"],
    [label |-> "Current Address",         type |-> "text",   col |-> "current address"],
    [label |-> "Awarded Institute",       type |-> "text",   col |-> "school name of highest qualification"],
    [label |-> "Year",                    type |-> "select", col |-> "year of graduation"] >>

\* uploads: (label, code)
uploads == <<
    [label |-> "Upload Identity Card (IC)", code |-> "002"],
    [label |-> "Upload passport",           code |-> "003"],
    [label |-> "Upload highest qualification or most relevent certification",
     code |-> "004"] >>

name_columns == << "name in ic/passport", "name in ic", "name" >>

\* A row maps each column it has to "val" (a non-blank cell) or "blank"
\* (NaN or white space only).
RowFull ==
    [c \in {"sr.no", "name in ic/passport", "sex", "ic number", "passport number"} |->
        IF c = "passport number" THEN "blank" ELSE "val"]

RowAlias ==
    [c \in {"sr.no", "name in ic/passport", "name", "date of birth",
            "year of graduation"} |->
        IF c = "name in ic/passport" THEN "blank" ELSE "val"]

RowNoName == [c \in {"sr.no", "current address"} |-> "val"]

NoRow == [c \in {} |-> "val"]

\* What the base folder holds for a person: whether a folder matches the
\* name, and the codes for which that folder has a PDF.
NoFolder == [folder |-> FALSE, pdfs |-> {}]

\* what a Fill Form click hands to the worker: the row, the Target URL and
\* the base folder
RunInputs ==
    { [row |-> RowFull, url |-> TRUE, fs |-> [folder |-> TRUE, pdfs |-> {"002", "004"}]],
      [row |-> RowAlias, url |-> TRUE, fs |-> NoFolder],
      [row |-> RowNoName, url |-> FALSE, fs |-> NoFolder] }

\* lines 254-258: whether one of the name columns holds a non-blank cell
person_name(r) ==
    \E i \in 1..Len(name_columns) :
        name_columns[i] \in DOMAIN r /\ r[name_columns[i]] = "val"

\* line 263: person_folder = find_person_folder(base_dir, person_name)
person_folder(f) == IF f.folder THEN "dir" ELSE None

\* line 279: fpath = find_pdf_by_prefix(person_folder, code, person_name)
fpath(f, code) == IF code \in f.pdfs THEN "pdf" ELSE None

\* lines 311-317: the field has a present, non-blank source value
has_value(r, i) == mapping[i].col \in DOMAIN r /\ r[mapping[i].col] = "val"

\* lines 307-317: the first field from i on that is not skipped, or
\* Len(mapping) + 1
RECURSIVE next_field(_, _)
next_field(r, i) ==
    IF i > Len(mapping) \/ has_value(r, i) THEN i ELSE next_field(r, i + 1)

\* What one Field Setter call can do, as fill_otms_form sees it: the result
\* ("True", "False" or "raise"), whether the Field Setter printed a warning,
\* and whether the page holds the intended value afterwards.  val is
\* stripped and non-blank (lines 315-317).
TextFieldOutcomes ==
    { LET r == fill_text_with_retry(c.value, c.accept, c.script, c.page)
      IN  [ret |-> r.ret, warn |-> r.warn, holds |-> strip(r.page) = c.value] :
      c \in { k \in TextCalls : k.value = strip(k.value) /\ k.value # <<>> } }

SelectFieldOutcomes ==
    { LET r == select_with_retry(c.value, c.options, c.script, c.selected)
      IN  [ret |-> r.ret, warn |-> r.warn,
           holds |-> r.selected # 0 /\ c.options[r.selected] = c.value] :
      c \in { k \in SelectCalls : ValidCall(k) } }

FieldOutcomes(type) ==
    IF type = "text" THEN TextFieldOutcomes ELSE SelectFieldOutcomes

-----------------------------------------------------------------------------
(* The session: App and its worker threads *)

NoOp == [op |-> "none", k |-> 0, ret |-> "none", holds |-> TRUE, warned |-> FALSE]

\* the session after App.__init__, with n Fill Form clicks to come and the
\* Field Setter call c
InitWith(n, c) ==
    /\ pause_event = TRUE          \* line 373: pause_event.set()
    /\ stop_event = FALSE          \* line 363
    /\ pause_btn = [state |-> "disabled", text |-> "Pause"]
    /\ stop_btn = "disabled"
    /\ status_var = "Ready."
    /\ afterQ = <<>>
    /\ runs_left = n
    /\ pc = [w \in Workers |-> "idle"]
    /\ row = [w \in Workers |-> NoRow]
    /\ url = [w \in Workers |-> FALSE]
    /\ fs = [w \in Workers |-> NoFolder]
    /\ slot = [w \in Workers |-> 1]
    /\ fld = [w \in Workers |-> 1]
    /\ phase = [w \in Workers |-> "Idle"]
    /\ oplog = [w \in Workers |-> <<>>]
    /\ lastop = [w \in Workers |-> NoOp]
    /\ emitted = [w \in Workers |-> None]
    /\ direct = [w \in Workers |-> {}]
    /\ stop_seen = [w \in Workers |-> FALSE]
    /\ call = c
    /\ outcome = NoOutcome

Init == InitWith(MaxRuns, NoCall)

InitSession == InitWith(SessionRuns, NoCall)

\* self.after(0, ...): the callback joins Tk's queue
CanSchedule == Len(afterQ) < MaxQ

\* App.set_status(msg) == self.after(0, lambda: self.status_var.set(msg))
set_status(q, msg) == Append(q, [kind |-> "status", msg |-> msg])

\* stop_check=lambda: self.stop_event.is_set()
stop_check_never == FALSE

stop_check == stop_event

\* App.wait_if_paused returns once pause_event is set
wait_if_paused_skipped == TRUE

wait_if_paused == pause_event

\* a worker thread that App.run started and that has not ended
Running(w) == pc[w] \notin {"idle", "finished"}

(* ---- GUI thread ---- *)

\* App.run, past its validation (lines 455-480): any early return or caught
\* exception leaves the session as it is.  The new thread is the first
\* unused one.
Run(in) ==
    /\ runs_left > 0
    /\ CanSchedule
    /\ LET w == CHOOSE v \in Workers :
                    pc[v] = "idle" /\ \A u \in 1..(v - 1) : pc[u] # "idle"
       IN
        /\ pause_btn' = [state |-> "normal", text |-> "Pause"]
        /\ stop_btn' = "normal"
        /\ stop_event' = FALSE
        /\ afterQ' = set_status(afterQ, "Starting")
        /\ runs_left' = runs_left - 1
        /\ pc' = [pc EXCEPT ![w] = "launch"]
        /\ row' = [row EXCEPT ![w] = in.row]
        /\ url' = [url EXCEPT ![w] = in.url]
        /\ fs' = [fs EXCEPT ![w] = in.fs]
        /\ stop_seen' = [v \in Workers |-> FALSE]
    /\ UNCHANGED << pause_event, status_var, slot, fld, phase, oplog, lastop,
                    emitted, direct, setterVars >>

\* App.on_pause_resume; a disabled button does not call its command
on_pause_resume ==
    /\ pause_btn.state = "normal"
    /\ CanSchedule
    /\ IF pause_event
       THEN /\ pause_event' = FALSE
            /\ afterQ' = set_status(afterQ, "Paused")
            /\ pause_btn' = [pause_btn EXCEPT !.text = "Resume"]
       ELSE /\ pause_event' = TRUE
            /\ afterQ' = set_status(afterQ, "Resumed")
            /\ pause_btn' = [pause_btn EXCEPT !.text = "Pause"]
    /\ UNCHANGED << stop_event, stop_btn, status_var, runs_left, pc, row, url,
                    fs, slot, fld, phase, oplog, lastop, emitted, direct,
                    stop_seen, setterVars >>

\* App.on_stop
on_stop ==
    /\ stop_btn = "normal"
    /\ CanSchedule
    /\ stop_event' = TRUE
    /\ afterQ' = set_status(afterQ, "Stopping")
    /\ UNCHANGED << pause_event, pause_btn, stop_btn, status_var, runs_left,
                    pc, row, url, fs, slot, fld, phase, oplog, lastop, emitted,
                    direct, stop_seen, setterVars >>

\* the Tk main loop runs the oldest after() callback
GuiAfter ==
    /\ afterQ # <<>>
    /\ afterQ' = Tail(afterQ)
    /\ IF Head(afterQ).kind = "status"
       THEN /\ status_var' = Head(afterQ).msg
            /\ UNCHANGED << pause_btn, stop_btn >>
       ELSE \* lines 512-515
            /\ pause_btn' = [state |-> "disabled", text |-> "Pause"]
            /\ stop_btn' = "disabled"
            /\ UNCHANGED status_var
    /\ UNCHANGED << pause_event, stop_event, runs_left, pc, row, url, fs, slot,
                    fld, phase, oplog, lastop, emitted, direct, stop_seen,
                    setterVars >>

(* ---- worker thread: App._selenium_task and fill_otms_form ---- *)

\* status_cb(msg): the worker hands a status to set_status
Emit(w, msg) ==
    /\ CanSchedule
    /\ afterQ' = set_status(afterQ, msg)
    /\ emitted' = [emitted EXCEPT ![w] = msg]

Started(w, op, k) == oplog' = [oplog EXCEPT ![w] = Append(@, [op |-> op, k |-> k])]

\* where the loop over uploads goes after slot k
after_slot(k) == IF k < Len(uploads) THEN "doc_head" ELSE "field_head"

\* lines 332-333: an exception of a field operation is caught and logged,
\* and the loop goes on
after_field_raise_escapes == "error"

after_field_raise == "field_head"

\* the same, with the phase falling back to Navigating when the fields begin
phase_at_renavigating(next, now) ==
    IF next = "field_head" THEN "Navigating"
    ELSE IF next = "error" THEN "Fatal" ELSE now

\* the phase the worker is in once it continues at position next
phase_at(next, now) ==
    IF next = "field_head" THEN "FillingFields"
    ELSE IF next = "error" THEN "Fatal" ELSE now

\* lines 499-502: read the Tk variables, report, make_driver
Launch(w) ==
    /\ pc[w] = "launch"
    /\ Emit(w, "Launching")
    /\ direct' = [direct EXCEPT ![w] = @ \cup {"attach_mode.get", "debug_port.get"}]
    /\ \E made \in BOOLEAN :
         LET next == IF made THEN "nav_head" ELSE "error" IN
         /\ pc' = [pc EXCEPT ![w] = next]
         /\ phase' = [phase EXCEPT ![w] = phase_at(next, @)]
    /\ UNCHANGED << guiVars, runs_left, row, url, fs, slot, fld, oplog, lastop,
                    stop_seen, setterVars >>

\* lines 503, 224-225
NavHead(w) ==
    /\ pc[w] = "nav_head"
    /\ direct' = [direct EXCEPT ![w] = @ \cup {"url.get"}]
    /\ IF url[w]
       THEN /\ Emit(w, "Navigating")
            /\ phase' = [phase EXCEPT ![w] = "Navigating"]
            /\ pc' = [pc EXCEPT ![w] = "nav_pause"]
       ELSE /\ pc' = [pc EXCEPT ![w] = "name"]
            /\ UNCHANGED << afterQ, emitted, phase >>
    /\ UNCHANGED << guiVars, runs_left, row, url, fs, slot, fld, oplog, lastop,
                    stop_seen, setterVars >>

\* a pause_check() call: lines 226, 262, 277, 286, 320
PauseCheck(w, at, next) ==
    /\ pc[w] = at
    /\ wait_if_paused
    /\ pc' = [pc EXCEPT ![w] = next]
    /\ UNCHANGED << guiVars, afterQ, runs_left, row, url, fs, slot, fld, phase,
                    oplog, lastop, emitted, direct, stop_seen, setterVars >>

\* line 227: driver.get(url)
NavGet(w) ==
    /\ pc[w] = "nav_get"
    /\ Started(w, "navigate", 0)
    /\ \E loaded \in BOOLEAN :
         LET next == IF loaded THEN "name" ELSE "error" IN
         /\ pc' = [pc EXCEPT ![w] = next]
         /\ phase' = [phase EXCEPT ![w] = phase_at(next, @)]
    /\ UNCHANGED << guiVars, afterQ, runs_left, row, url, fs, slot, fld, lastop,
                    emitted, direct, stop_seen, setterVars >>

\* lines 254-261 and 303-304: base_dir is never empty (App.run refuses it)
Name(w) ==
    /\ pc[w] = "name"
    /\ stop_seen' = [stop_seen EXCEPT ![w] = stop_event]
    /\ IF person_name(row[w])
       THEN /\ Emit(w, "Locating")
            /\ phase' = [phase EXCEPT ![w] = "UploadingDocuments"]
            /\ pc' = [pc EXCEPT ![w] = "folder_pause"]
       ELSE /\ phase' = [phase EXCEPT ![w] = "FillingFields"]
            /\ pc' = [pc EXCEPT ![w] = "field_head"]
            /\ UNCHANGED << afterQ, emitted >>
    /\ UNCHANGED << guiVars, runs_left, row, url, fs, slot, fld, oplog, lastop,
                    direct, setterVars >>

\* lines 263-271
FolderFind(w) ==
    /\ pc[w] = "folder_find"
    /\ Started(w, "folder", 0)
    /\ LET next == IF person_folder(fs[w]) = None THEN "field_head" ELSE "doc_head" IN
         /\ pc' = [pc EXCEPT ![w] = next]
         /\ phase' = [phase EXCEPT ![w] = phase_at(next, @)]
    /\ UNCHANGED << guiVars, afterQ, runs_left, row, url, fs, slot, fld, lastop,
                    emitted, direct, stop_seen, setterVars >>

\* lines 272-276
DocHead(w) ==
    /\ pc[w] = "doc_head"
    /\ lastop' = [lastop EXCEPT ![w] = NoOp]
    /\ IF stop_check
       THEN /\ Emit(w, "Stopped")
            /\ phase' = [phase EXCEPT ![w] = "Stopped"]
            /\ pc' = [pc EXCEPT ![w] = "done_status"]
       ELSE /\ Emit(w, "Searching")
            /\ pc' = [pc EXCEPT ![w] = "search_pause"]
            /\ UNCHANGED phase
    /\ UNCHANGED << guiVars, runs_left, row, url, fs, slot, fld, oplog, direct,
                    stop_seen, setterVars >>

\* lines 279-285
Search(w) ==
    /\ pc[w] = "search"
    /\ Started(w, "search", slot[w])
    /\ IF fpath(fs[w], uploads[slot[w]].code) # None
       THEN /\ Emit(w, "Uploading")
            /\ pc' = [pc EXCEPT ![w] = "upload_pause"]
            /\ UNCHANGED << slot, phase >>
       ELSE /\ pc' = [pc EXCEPT ![w] = after_slot(slot[w])]
            /\ phase' = [phase EXCEPT ![w] = phase_at(after_slot(slot[w]), @)]
            /\ slot' = [slot EXCEPT ![w] = @ + 1]
            /\ UNCHANGED << afterQ, emitted >>
    /\ UNCHANGED << guiVars, runs_left, row, url, fs, fld, lastop, direct,
                    stop_seen, setterVars >>

\* lines 287-302.  "raise": the control was not found or refused the path;
\* "click": the path was sent and the adjacent button or the "Upload"
\* button was clicked; "noclick": the path was sent and neither button
\* could be clicked (click_button_with_text returned False).
Upload(w) ==
    /\ pc[w] = "upload"
    /\ Started(w, "upload", slot[w])
    /\ \E how \in {"raise", "click", "noclick"} :
         LET next == after_slot(slot[w])
         IN  /\ lastop' = [lastop EXCEPT ![w] =
                    [op |-> "upload", k |-> slot[w], ret |-> how,
                     holds |-> how # "raise", warned |-> how = "raise"]]
             /\ pc' = [pc EXCEPT ![w] = next]
             /\ phase' = [phase EXCEPT ![w] = phase_at(next, @)]
    /\ slot' = [slot EXCEPT ![w] = @ + 1]
    /\ UNCHANGED << guiVars, afterQ, runs_left, row, url, fs, fld, emitted,
                    direct, stop_seen, setterVars >>

\* lines 307-319: the iterations up to the next field that is not skipped;
\* stop_check() opens each of them
FieldHead(w) ==
    /\ pc[w] = "field_head"
    /\ fld[w] <= Len(mapping)
    /\ lastop' = [lastop EXCEPT ![w] = NoOp]
    /\ IF stop_check
       THEN /\ Emit(w, "Stopped")
            /\ phase' = [phase EXCEPT ![w] = "Stopped"]
            /\ pc' = [pc EXCEPT ![w] = "done_status"]
            /\ UNCHANGED fld
       ELSE LET i == next_field(row[w], fld[w]) IN
            /\ fld' = [fld EXCEPT ![w] = i]
            /\ IF i <= Len(mapping)
               THEN /\ Emit(w, "Filling")
                    /\ pc' = [pc EXCEPT ![w] = "field_pause"]
               ELSE UNCHANGED << afterQ, emitted, pc >>
            /\ UNCHANGED phase
    /\ UNCHANGED << guiVars, runs_left, row, url, fs, slot, oplog, direct,
                    stop_seen, setterVars >>

\* lines 322-333: one Field Setter call; a False result and an exception
\* both print a [WARN] line
FieldOp(w) ==
    /\ pc[w] = "field_op"
    /\ Started(w, "field", fld[w])
    /\ \E o \in FieldOutcomes(mapping[fld[w]].type) :
         LET next == IF o.ret = "raise" THEN after_field_raise ELSE "field_head" IN
         /\ lastop' = [lastop EXCEPT ![w] =
                [op |-> mapping[fld[w]].type, k |-> fld[w], ret |-> o.ret,
                 holds |-> o.holds, warned |-> o.warn \/ o.ret # "True"]]
         /\ pc' = [pc EXCEPT ![w] = next]
         /\ phase' = [phase EXCEPT ![w] = phase_at(next, @)]
    /\ fld' = [fld EXCEPT ![w] = @ + 1]
    /\ UNCHANGED << guiVars, afterQ, runs_left, row, url, fs, slot, emitted,
                    direct, stop_seen, setterVars >>

\* lines 336-337: the loop over mapping has ended
Complete(w) ==
    /\ pc[w] = "field_head"
    /\ fld[w] > Len(mapping)
    /\ Emit(w, "AllFilled")
    /\ lastop' = [lastop EXCEPT ![w] = NoOp]
    /\ direct' = [direct EXCEPT ![w] = @ \cup {"showinfo"}]
    /\ phase' = [phase EXCEPT ![w] = "Complete"]
    /\ pc' = [pc EXCEPT ![w] = "done_status"]
    /\ UNCHANGED << guiVars, runs_left, row, url, fs, slot, fld, oplog,
                    stop_seen, setterVars >>

\* line 506: fill_otms_form has returned
DoneStatus(w) ==
    /\ pc[w] = "done_status"
    /\ Emit(w, "Done")
    /\ pc' = [pc EXCEPT ![w] = "finally"]
    /\ UNCHANGED << guiVars, runs_left, row, url, fs, slot, fld, phase, oplog,
                    lastop, direct, stop_seen, setterVars >>

\* lines 507-509: an exception reached _selenium_task
Error(w) ==
    /\ pc[w] = "error"
    /\ Emit(w, "Error")
    /\ direct' = [direct EXCEPT ![w] = @ \cup {"showerror"}]
    /\ pc' = [pc EXCEPT ![w] = "finally"]
    /\ UNCHANGED << guiVars, runs_left, row, url, fs, slot, fld, phase, oplog,
                    lastop, stop_seen, setterVars >>

\* lines 510-515: schedule the disabling of the buttons; the thread ends
Finally(w) ==
    /\ pc[w] = "finally"
    /\ CanSchedule
    /\ afterQ' = Append(afterQ, [kind |-> "disable", msg |-> None])
    /\ pc' = [pc EXCEPT ![w] = "finished"]
    /\ UNCHANGED << guiVars, runs_left, row, url, fs, slot, fld, phase, oplog,
                    lastop, emitted, direct, stop_seen, setterVars >>

\* the pause checkpoints and the operation each one precedes
PausePoints ==
    { <<"nav_pause", "nav_get">>, <<"folder_pause", "folder_find">>,
      <<"search_pause", "search">>, <<"upload_pause", "upload">>,
      <<"field_pause", "field_op">> }

PausePcs == { p[1] : p \in PausePoints }

Worker(w) ==
    \/ Launch(w)
    \/ NavHead(w)
    \/ \E p \in PausePoints : PauseCheck(w, p[1], p[2])
    \/ NavGet(w)
    \/ Name(w)
    \/ FolderFind(w)
    \/ DocHead(w)
    \/ Search(w)
    \/ Upload(w)
    \/ FieldHead(w)
    \/ FieldOp(w)
    \/ Complete(w)
    \/ DoneStatus(w)
    \/ Error(w)
    \/ Finally(w)

Threads == \E w \in Workers : Worker(w)

Gui ==
    \/ \E in \in RunInputs : Run(in)
    \/ on_pause_resume
    \/ on_stop
    \/ GuiAfter

Next == Gui \/ Threads

\* a session with MaxRuns Fill Form clicks
Spec == Init /\ [][Next]_vars

\* a session with SessionRuns Fill Form clicks
SpecSession == InitSession /\ [][Next]_vars

\* Spec with the scheduling of the threads: a thread that can take a step
\* takes one, and the main loop runs the callbacks that wait.  The user is
\* under no obligation to click anything.
FairSpec == Init /\ [][Next]_vars /\ WF_vars(Threads) /\ WF_vars(GuiAfter)

\* One Field Setter call: the inputs are drawn at the start, then the call
\* is made.
InitSetter ==
    \E c \in { k \in TextCalls \cup SelectCalls : ValidCall(k) } : InitWith(0, c)

SpecSetter == InitSetter /\ [][NextSetter]_vars


-----------------------------------------------------------------------------
(* File Resolver: find_person_folder and find_pdf_by_prefix *)

\* A file or folder name is a sequence of characters in which a document
\* code ("002", "003") and an extension (".pdf", ".PDF") each count as one
\* character.  ":" stands for the characters of [\\/:*?"<>|].
Illegal == {":"}

\* str.lower() on a name
lower_name(s) ==
    [i \in 1..Len(s) |-> IF s[i] = ".PDF" THEN ".pdf" ELSE lower_char(s[i])]

\* re.sub(r"\s+", " ", s)
RECURSIVE collapse(_)
collapse(s) ==
    IF Len(s) < 2 THEN s
    ELSE IF s[1] = " " /\ s[2] = " " THEN collapse(Tail(s))
    ELSE <<s[1]>> \o collapse(Tail(s))

\* lines 159-161
_norm(s) == collapse(lower_name(strip(s)))

\* re.sub(r'[\\/:*?"<>|]', '', s)
RECURSIVE remove_illegal(_)
remove_illegal(s) ==
    IF s = <<>> THEN <<>>
    ELSE IF Head(s) \in Illegal THEN remove_illegal(Tail(s))
    ELSE <<Head(s)>> \o remove_illegal(Tail(s))

\* A directory listing is a sequence of entries [name, isfile] with distinct
\* names, in the order the operating system lists them; names are compared
\* as the file system of the build does, character for character.
entry_named(listing, name) ==
    first_option([i \in 1..Len(listing) |-> listing[i].name = name])

\* os.path.isfile(os.path.join(folder, name))
isfile(listing, name) ==
    entry_named(listing, name) # 0 /\ listing[entry_named(listing, name)].isfile

\* os.path.isdir(os.path.join(base_dir, name))
isdir(listing, name) ==
    entry_named(listing, name) # 0 /\ ~listing[entry_named(listing, name)].isfile

\* glob.glob(os.path.join(folder, f"{code_prefix}*.pdf")): the names that
\* start with the prefix and end in ".pdf", in listing order
glob(listing, code_prefix) ==
    LET hit(e) == Len(e.name) >= 2 /\ Head(e.name) = code_prefix
                  /\ e.name[Len(e.name)] = ".pdf"
        hits   == SelectSeq(listing, hit)
    IN  [i \in 1..Len(hits) |-> hits[i].name]

\* line 200: the sanitized name
pdf_base(pname) == strip(remove_illegal(pname))

\* lines 201-205
pdf_candidates(listing, code_prefix, pname) ==
    LET base == pdf_base(pname)
    IN  << <<code_prefix, " ">> \o base \o <<".pdf">>,
           <<code_prefix, "_">> \o base \o <<".pdf">>,
           <<code_prefix, "-">> \o base \o <<".pdf">> >>
        \o glob(listing, code_prefix)

\* os.path.isfile(p) and p.lower().endswith(".pdf")
is_pdf_file(listing, p) ==
    isfile(listing, p) /\ lower_name(p)[Len(p)] = ".pdf"

\* lines 209-217 without the preference for the person's name
find_pdf_by_prefix_first_existing(is_folder, listing, code_prefix, pname) ==
    LET cands == pdf_candidates(listing, code_prefix, pname)
        any   == first_option([i \in 1..Len(cands) |-> is_pdf_file(listing, cands[i])])
    IN  IF ~is_folder THEN None
        ELSE IF any # 0 THEN cands[any]
        ELSE None

\* lines 189-219.  is_folder: folder is non-empty and os.path.isdir(folder)
find_pdf_by_prefix(is_folder, listing, code_prefix, pname) ==
    LET cands == pdf_candidates(listing, code_prefix, pname)
        lname == _norm(pdf_base(pname))
        named == first_option([i \in 1..Len(cands) |->
                    /\ is_pdf_file(listing, cands[i])
                    /\ contains(lname, _norm(cands[i]))])
        any   == first_option([i \in 1..Len(cands) |-> is_pdf_file(listing, cands[i])])
    IN  IF ~is_folder THEN None
        ELSE IF named # 0 THEN cands[named]
        ELSE IF any # 0 THEN cands[any]
        ELSE None

\* lines 173-187 with a single pass that takes the first containing entry
find_person_folder_contains_first(is_base, listing, pname) ==
    LET target == _norm(pname)
        fuzzy  == first_option([i \in 1..Len(listing) |->
                    /\ isdir(listing, listing[i].name)
                    /\ contains(target, _norm(listing[i].name))])
    IN  IF ~is_base THEN None
        ELSE IF fuzzy # 0 THEN listing[fuzzy].name
        ELSE None

\* lines 173-187.  is_base: os.path.isdir(base_dir); the two os.listdir
\* calls list the same entries
find_person_folder(is_base, listing, pname) ==
    LET target == _norm(pname)
        exact  == first_option([i \in 1..Len(listing) |->
                    /\ isdir(listing, listing[i].name)
                    /\ _norm(listing[i].name) = target])
        fuzzy  == first_option([i \in 1..Len(listing) |->
                    /\ isdir(listing, listing[i].name)
                    /\ contains(target, _norm(listing[i].name))])
    IN  IF ~is_base THEN None
        ELSE IF exact # 0 THEN listing[exact].name
        ELSE IF fuzzy # 0 THEN listing[fuzzy].name
        ELSE None

(* ---- one File Resolver call: inputs ---- *)

\* most entries in a listed folder
MaxEntries == 2

\* the sequences of at most MaxEntries distinct members of S
Listings(S) ==
    UNION { { l \in [1..n -> S] : \A i, j \in 1..n : l[i] = l[j] => i = j } :
            n \in 0..MaxEntries }

\* what a person's folder may hold
PdfEntries ==
    { [name |-> <<"002", " ", "a", ".pdf">>,      isfile |-> TRUE],
      [name |-> <<"002", "_", "A", ".pdf">>,      isfile |-> TRUE],
      [name |-> <<"002", "b", ".pdf">>,           isfile |-> TRUE],
      [name |-> <<"002", " ", ":", "a", ".pdf">>, isfile |-> TRUE],
      [name |-> <<"002", " ", "b", ".PDF">>,      isfile |-> TRUE],
      [name |-> <<"003", " ", "a", ".pdf">>,      isfile |-> TRUE],
      [name |-> <<"002", "-", "a", ".pdf">>,      isfile |-> FALSE] }

\* person names as fill_otms_form passes them: stripped and not empty
PersonNames == { <<"a">>, <<"A">>, <<"b">>, <<":", "a">>, <<"a", " ", " ", "b">> }

PdfCalls ==
    { [fn |-> "find_pdf", is_folder |-> TRUE, listing |-> l, code |-> c, name |-> n] :
        l \in Listings(PdfEntries), c \in {"002", "003"}, n \in PersonNames }
    \cup
    { [fn |-> "find_pdf", is_folder |-> FALSE, listing |-> <<>>, code |-> "002", name |-> n] :
        n \in PersonNames }

\* what the base folder may hold
FolderEntries ==
    { [name |-> <<"a">>,                isfile |-> FALSE],
      [name |-> <<"A", " ">>,           isfile |-> FALSE],
      [name |-> <<"b", " ", "a">>,      isfile |-> FALSE],
      [name |-> <<"a", " ", "b">>,      isfile |-> FALSE],
      [name |-> <<"A", " ", "B", "a">>, isfile |-> FALSE],
      [name |-> <<"b">>,                isfile |-> TRUE],
      [name |-> <<":", "a">>,           isfile |-> FALSE] }

FolderCalls ==
    { [fn |-> "find_folder", is_base |-> TRUE, listing |-> l, name |-> n] :
        l \in Listings(FolderEntries), n \in PersonNames }
    \cup
    { [fn |-> "find_folder", is_base |-> FALSE, listing |-> <<>>, name |-> n] :
        n \in PersonNames }

CallFindPdf ==
    /\ call.fn = "find_pdf"
    /\ ~outcome.done
    /\ outcome' = [done |-> TRUE,
                   res |-> find_pdf_by_prefix(call.is_folder, call.listing,
                                              call.code, call.name)]
    /\ UNCHANGED << sessionVars, call >>

CallFindFolder ==
    /\ call.fn = "find_folder"
    /\ ~outcome.done
    /\ outcome' = [done |-> TRUE,
                   res |-> find_person_folder(call.is_base, call.listing, call.name)]
    /\ UNCHANGED << sessionVars, call >>

NextResolver == CallFindPdf \/ CallFindFolder

InitResolver == \E c \in PdfCalls \cup FolderCalls : InitWith(0, c)

\* One File Resolver call: the inputs are drawn at the start, then the call
\* is made.
SpecResolver == InitResolver /\ [][NextResolver]_vars

-----------------------------------------------------------------------------
(* Locator: by_label_input and by_label_select under their deadline *)

\* Time is counted in whole seconds from the moment end_time is computed;
\* only the waits take time.  Each XPath of a call has the time from which
\* its element is present in the page, or Never.
Never == -1

\* the XPaths of by_label_input (lines 110-113) and by_label_select
\* (lines 132-133)
input_xpaths == 4

select_xpaths == 2

\* timeout: 8 by default, 6 as the Field Setter calls the locators
LocatorTimeouts == {6, 8}

\* max(1, int(end_time - time.time()))
wait_seconds(end_time, now) ==
    IF end_time - now > 1 THEN end_time - now ELSE 1

\* WebDriverWait(driver, t).until(presence_of_element_located(xp)) started
\* at now: the time the element is returned, or Never for TimeoutException
until_present(appears, now, t) ==
    IF appears = Never \/ appears > now + t THEN Never
    ELSE IF appears > now THEN appears ELSE now

\* lines 117-126 and 137-146: the loop over the XPaths from the k-th on.
\*   ret: "el" or "RuntimeError"; xp: the XPath that matched; at: the time
\*   of the return; waited: the seconds spent in WebDriverWait
RECURSIVE try_xpaths(_, _, _, _, _)
try_xpaths(k, appear, end_time, now, waited) ==
    IF k > Len(appear)
    THEN [ret |-> "RuntimeError", xp |-> 0, at |-> now, waited |-> waited]
    ELSE LET t     == wait_seconds(end_time, now)
             found == until_present(appear[k], now, t)
         IN  IF found # Never
             THEN [ret |-> "el", xp |-> k, at |-> found,
                   waited |-> waited + (found - now)]
             ELSE try_xpaths(k + 1, appear, end_time, now + t, waited + t)

\* by_label_input / by_label_select, called at time 0: end_time = timeout
locate_by_label(appear, timeout) == try_xpaths(1, appear, timeout, 0, 0)

(* ---- one Locator call: inputs ---- *)

\* when the element of an XPath may become present: from the start, around
\* the deadline while the later XPaths are tried, or never
AppearTimes(n, timeout) == {Never, 0} \cup (timeout - 1)..(timeout + n - 1)

LocatorCallsOf(fn, n) ==
    UNION { { [fn |-> fn, timeout |-> t, appear |-> a] :
                a \in [1..n -> AppearTimes(n, t)] } : t \in LocatorTimeouts }

LocatorCalls ==
    LocatorCallsOf("by_label_input", input_xpaths)
    \cup LocatorCallsOf("by_label_select", select_xpaths)

CallByLabelInput ==
    /\ call.fn = "by_label_input"
    /\ ~outcome.done
    /\ outcome' = [done |-> TRUE, res |-> locate_by_label(call.appear, call.timeout)]
    /\ UNCHANGED << sessionVars, call >>

CallByLabelSelect ==
    /\ call.fn = "by_label_select"
    /\ ~outcome.done
    /\ outcome' = [done |-> TRUE, res |-> locate_by_label(call.appear, call.timeout)]
    /\ UNCHANGED << sessionVars, call >>

NextLocator == CallByLabelInput \/ CallByLabelSelect

InitLocator == \E c \in LocatorCalls : InitWith(0, c)

\* One Locator call: the page's timing is drawn at the start, then the
\* call is made.
SpecLocator == InitLocator /\ [][NextLocator]_vars

-----------------------------------------------------------------------------
(* Field Setter: fill_text_with_retry twice in a row *)

\* two calls with the same label and value on the same page; the element
\* may hold text before the first call
TwiceCalls ==
    { [fn |-> "text_twice", value |-> v, accept |-> a, page |-> p,
       script |-> s1, script2 |-> s2] :
        v \in TextValues, a \in Accepts, p \in { <<>>, <<"b">> },
        s1 \in FirstAttemptScripts(TextAttempts),
        s2 \in FirstAttemptScripts(TextAttempts) }

CallTextFirst ==
    /\ call.fn = "text_twice"
    /\ DOMAIN outcome = {"done"}
    /\ outcome' = [done |-> FALSE,
                   first |-> fill_text_with_retry(call.value, call.accept,
                                                  call.script, call.page)]
    /\ UNCHANGED << call, sessionVars >>

\* the second call finds the page as the first one left it
CallTextSecond ==
    /\ call.fn = "text_twice"
    /\ ~outcome.done
    /\ "first" \in DOMAIN outcome
    /\ outcome' = [done |-> TRUE, first |-> outcome.first,
                   res |-> fill_text_with_retry(call.value, call.accept,
                                                call.script2, outcome.first.page)]
    /\ UNCHANGED << call, sessionVars >>

NextTwice == CallTextFirst \/ CallTextSecond

InitTwice == \E c \in TwiceCalls : InitWith(0, c)

\* Two Field Setter calls in a row on one page.
SpecTwice == InitTwice /\ [][NextTwice]_vars
-----------------------------------------------------------------------------
(* Properties *)

Last(s) == s[Len(s)]

\* the items of kind op that the worker has started, in the order started
RECURSIVE Items(_, _)
Items(log, op) ==
    IF log = <<>> THEN <<>>
    ELSE IF Head(log).op = op THEN <<Head(log).k>> \o Items(Tail(log), op)
    ELSE Items(Tail(log), op)

Increasing(s) == \A i \in 1..(Len(s) - 1) : s[i] < s[i + 1]

Range(s) == { s[i] : i \in 1..Len(s) }

Returned(w) == pc[w] \in {"done_status", "finally", "finished"}

OpPcs == { p[2] : p \in PausePoints }

\* C1: when the stop signal is set as the document-upload phase begins and
\* is not cleared afterwards, the run starts no upload (no path is sent, no
\* button is clicked), never reaches Complete, and once fill_otms_form has
\* returned it has ended in Stopped.
C1_StopBeforeUploads ==
    \A w \in Workers :
        stop_seen[w] =>
            /\ Items(oplog[w], "upload") = <<>>
            /\ lastop[w].op # "upload"
            /\ phase[w] # "Complete"
            /\ Returned(w) => phase[w] = "Stopped"

\* C1 witness: a run whose person folder holds PDFs ended in Stopped with
\* the stop signal set since the upload phase began.
C1_Witness ==
    \E w \in Workers :
        /\ stop_seen[w]
        /\ person_name(row[w]) /\ fs[w].folder /\ fs[w].pdfs # {}
        /\ pc[w] = "finished" /\ phase[w] = "Stopped"

\* C2 as stated: no navigation, document operation or field operation is
\* started while the pause flag is set (pause_event cleared), and no
\* document slot or mapped field is processed more than once in a run.
C2_NothingStartsWhilePaused ==
    /\ [](\A w \in Workers :
            /\ Increasing(Items(oplog[w], "search"))
            /\ Increasing(Items(oplog[w], "upload"))
            /\ Increasing(Items(oplog[w], "field")))
    /\ [][\A w \in Workers : Len(oplog'[w]) > Len(oplog[w]) => pause_event]_vars

\* C2 as amended: a worker leaves a pause checkpoint only while the pause
\* flag is clear (pause_event set), an operation is started only from the
\* position that directly follows such a checkpoint, and the document slots
\* and the mapped fields are each started in increasing order, so none is
\* processed twice.
C2_PauseAtCheckpoints ==
    /\ [](\A w \in Workers :
            /\ Increasing(Items(oplog[w], "search"))
            /\ Increasing(Items(oplog[w], "upload"))
            /\ Increasing(Items(oplog[w], "field"))
            /\ Len(Items(oplog[w], "navigate")) <= 1
            /\ Len(Items(oplog[w], "folder")) <= 1)
    /\ [][\A w \in Workers :
            /\ (pc[w] \in PausePcs /\ pc'[w] # pc[w]) => pause_event
            /\ (pc'[w] \in OpPcs /\ pc'[w] # pc[w]) => pc[w] \in PausePcs
            /\ Len(oplog'[w]) > Len(oplog[w]) => pc[w] \in OpPcs]_vars

\* C2 witness: a worker that has already started operations waits at the
\* checkpoint before a field while the session is paused.
C2_Witness ==
    \E w \in Workers :
        /\ pc[w] = "field_pause"
        /\ ~pause_event
        /\ Len(oplog[w]) >= 2

\* C3: a worker waiting at a pause checkpoint while the session is paused
\* and stop is requested eventually leaves the checkpoint without any
\* resume: either it leaves, or the user has resumed in the meantime.
C3_StopReleasesPausedWorker ==
    \A w \in Workers :
        (pc[w] \in PausePcs /\ ~pause_event /\ stop_event)
            ~> (pc[w] \notin PausePcs \/ pause_event)

\* C4: while a worker run is in progress, stop_event once set stays set.
C4_StopIsLatched ==
    [][(stop_event /\ \E w \in Workers : Running(w)) => stop_event']_vars

\* C5: at most one worker thread is running at any time.
C5_SingleWorker == Cardinality({ w \in Workers : Running(w) }) <= 1

\* C6: a Field Setter call returns True or False, and False only after a
\* warning; no exception leaves it.
C6_NeverThrows ==
    outcome.done =>
        /\ outcome.res.ret \in {"True", "False"}
        /\ outcome.res.ret = "False" => outcome.res.warn

\* C7: when fill_text_with_retry returns True, the value read back on that
\* attempt equals the intended value, both stripped.
C7_TrueMeansReadback ==
    (outcome.done /\ call.fn = "text" /\ outcome.res.ret = "True") =>
        /\ outcome.res.read
        /\ strip(outcome.res.v) = strip(call.value)

\* C7 witness: True is returned on a later attempt by a page that pads what
\* is typed, for a value that itself has a trailing blank.
C7_Witness ==
    /\ outcome.done /\ call.fn = "text" /\ outcome.res.ret = "True"
    /\ call.accept = "pad" /\ call.value = <<"a", " ">>
    /\ outcome.res.attempts > 1

\* C8: after a text or select field has been processed, either the page
\* holds the intended value or a warning was printed for the field.
C8_UnverifiedIsWarned ==
    \A w \in Workers :
        (lastop[w].op \in {"text", "select"} /\ ~lastop[w].holds) => lastop[w].warned

\* C9: when select_with_retry returns True, the option selected is the
\* first whose text equals the value if there is one; otherwise the first
\* that equals it ignoring case if there is one; otherwise the first that
\* contains it ignoring case if there is one; otherwise the selection is
\* left as it was.
C9_ExactBeforeFuzzy ==
    (outcome.done /\ call.fn = "select" /\ outcome.res.ret = "True") =>
        LET o == call.options
            v == call.value
            s == outcome.res.selected
            Exact(i) == o[i] = v
            Ci(i) == lower(strip(o[i])) = lower(v)
            Sub(i) == contains(lower(v), lower(strip(o[i])))
            FirstExact == Exact(s) /\ \A j \in 1..(s - 1) : ~Exact(j)
            FirstCi == Ci(s) /\ \A j \in 1..(s - 1) : ~Ci(j)
            FirstSub == Sub(s) /\ \A j \in 1..(s - 1) : ~Sub(j)
        IN  IF \E i \in 1..Len(o) : Exact(i)
            THEN FirstExact /\ outcome.res.how = "exact"
            ELSE IF \E i \in 1..Len(o) : Ci(i)
            THEN FirstCi /\ outcome.res.how = "fuzzy"
            ELSE IF \E i \in 1..Len(o) : Sub(i)
            THEN FirstSub /\ outcome.res.how = "fuzzy"
            ELSE s = call.selected /\ outcome.res.how = "none"

\* C9 witness: the exact option is selected although an earlier option
\* matches the value ignoring case.
C9_Witness ==
    /\ outcome.done /\ call.fn = "select" /\ outcome.res.ret = "True"
    /\ outcome.res.how = "exact"
    /\ outcome.res.selected = 2
    /\ lower(call.options[1]) = lower(call.value)

\* C10: a failed document slot or field never ends the run: the phase is
\* Fatal only after a failed launch or navigation; after a failed upload or
\* field the worker is at the head of the loop it was in; Stopped is entered
\* only when stop_event is set; and a run that is Complete has searched
\* every slot of a found folder, tried the upload of every PDF found and
\* tried every field that has a value.
C10_FailureIsolation ==
    /\ [](\A w \in Workers :
            /\ phase[w] = "Fatal" =>
                   (oplog[w] = <<>> \/ Last(oplog[w]).op = "navigate")
            /\ lastop[w].op = "upload" => pc[w] \in {"doc_head", "field_head"}
            /\ lastop[w].op \in {"text", "select"} => pc[w] = "field_head"
            /\ pc[w] = "done_status" => phase[w] \in {"Complete", "Stopped"}
            /\ pc[w] = "error" => phase[w] = "Fatal"
            /\ phase[w] = "Complete" =>
                 /\ Range(Items(oplog[w], "field")) =
                        { i \in 1..Len(mapping) : has_value(row[w], i) }
                 /\ (person_name(row[w]) /\ fs[w].folder) =>
                        /\ Range(Items(oplog[w], "search")) = 1..Len(uploads)
                        /\ Range(Items(oplog[w], "upload")) =
                             { k \in 1..Len(uploads) : uploads[k].code \in fs[w].pdfs })
    /\ [][\A w \in Workers :
            (phase'[w] = "Stopped" /\ phase[w] # "Stopped") => stop_event]_vars

\* C10 witness: a field operation has just raised and the worker is back at
\* the head of the loop with fields left.
C10_Witness ==
    \E w \in Workers :
        /\ lastop[w].op \in {"text", "select"} /\ lastop[w].ret = "raise"
        /\ pc[w] = "field_head"
        /\ fld[w] <= Len(mapping)
        /\ next_field(row[w], fld[w]) <= Len(mapping)


-----------------------------------------------------------------------------
(* File Resolver *)

\* the candidates of a find_pdf_by_prefix call that exist on disk, in
\* order: the three names built from name, then every file of the folder
\* that starts with the prefix and ends in ".pdf"
ExistingCandidates(c, name) ==
    LET built   == << <<c.code, " ">> \o name \o <<".pdf">>,
                      <<c.code, "_">> \o name \o <<".pdf">>,
                      <<c.code, "-">> \o name \o <<".pdf">> >>
        OnDisk(n) == \E i \in 1..Len(c.listing) :
                        c.listing[i].name = n /\ c.listing[i].isfile
        Listed(e) == e.isfile /\ Head(e.name) = c.code
                     /\ Last(e.name) = ".pdf"
        files   == SelectSeq(c.listing, Listed)
    IN  SelectSeq(built, OnDisk) \o [i \in 1..Len(files) |-> files[i].name]

\* the result the preference rule asks for, the person's name being name
PreferredPdf(c, name) ==
    LET ex       == ExistingCandidates(c, name)
        Named(n) == contains(_norm(name), _norm(n))
        named    == SelectSeq(ex, Named)
    IN  IF named # <<>> THEN Head(named)
        ELSE IF ex # <<>> THEN Head(ex)
        ELSE None

\* no file of the folder starts with the prefix and ends in ".pdf"
NoPdfWithPrefix(c) ==
    \A i \in 1..Len(c.listing) :
        ~( /\ c.listing[i].isfile
           /\ Head(c.listing[i].name) = c.code
           /\ Last(c.listing[i].name) = ".pdf" )

\* C11 as stated: among the existing candidates find_pdf_by_prefix returns
\* the first whose normalized file name contains the normalized person
\* name, else the first existing one; it returns absent exactly when the
\* folder has no file with the prefix and the .pdf extension.
C11_PrefersNamedPdf ==
    (outcome.done /\ call.fn = "find_pdf") =>
        /\ outcome.res = PreferredPdf(call, call.name)
        /\ outcome.res = None <=> NoPdfWithPrefix(call)

\* C11 amended: the same, the person's name being taken with the
\* characters that are illegal in file names removed, both to build the
\* three names and to test a file name for the person's name.
C11_PrefersSanitizedName ==
    (outcome.done /\ call.fn = "find_pdf") =>
        /\ outcome.res = PreferredPdf(call, pdf_base(call.name))
        /\ outcome.res = None <=> NoPdfWithPrefix(call)

\* a later file that carries the name is preferred to an earlier one that
\* has only the prefix, for a name with an illegal character
C11_Witness ==
    /\ outcome.done
    /\ call.fn = "find_pdf"
    /\ call.name = <<":", "a">>
    /\ Len(call.listing) = 2
    /\ call.listing[1].name = <<"002", "b", ".pdf">>
    /\ outcome.res = call.listing[2].name
    /\ outcome.res = <<"002", "_", "A", ".pdf">>

\* C12: find_person_folder returns a subdirectory whose normalized name
\* equals the normalized person name when there is one, otherwise the first
\* subdirectory whose normalized name contains it, otherwise absent; absent
\* too when base_dir is no directory; never an entry that is no directory.
C12_ExactFolderFirst ==
    (outcome.done /\ call.fn = "find_folder") =>
        LET Dir(e)   == ~e.isfile
            dirs     == SelectSeq(call.listing, Dir)
            Exact(e) == _norm(e.name) = _norm(call.name)
            Sub(e)   == contains(_norm(call.name), _norm(e.name))
            exact    == SelectSeq(dirs, Exact)
            sub      == SelectSeq(dirs, Sub)
        IN  /\ exact # <<>> => outcome.res \in { exact[i].name : i \in 1..Len(exact) }
            /\ (exact = <<>> /\ sub # <<>>) => outcome.res = Head(sub).name
            /\ (sub = <<>> \/ ~call.is_base) => outcome.res = None
            /\ outcome.res # None =>
                 outcome.res \in { dirs[i].name : i \in 1..Len(dirs) }

\* an exact match listed after a subdirectory that only contains the name
C12_Witness ==
    /\ outcome.done
    /\ call.fn = "find_folder"
    /\ call.name = <<"a">>
    /\ Len(call.listing) = 2
    /\ call.listing[1].name = <<"b", " ", "a">>
    /\ call.listing[2].name = <<"A", " ">>
    /\ outcome.res = <<"A", " ">>

-----------------------------------------------------------------------------
(* Locator *)

\* C13: a locator call whose label is present through one of its XPaths
\* returns an element no later than its deadline of timeout seconds, and
\* no call waits more than timeout seconds in all.
C13_LocatorDeadline ==
    (outcome.done /\ call.fn \in {"by_label_input", "by_label_select"}) =>
        /\ (\E k \in 1..Len(call.appear) : call.appear[k] = 0) =>
              outcome.res.ret = "el" /\ outcome.res.at <= call.timeout
        /\ outcome.res.waited <= call.timeout

-----------------------------------------------------------------------------
(* Field Setter twice *)

\* the page accepts the value: what the element holds after clear and
\* send_keys reads back as the value
Accepting(c) == readback_matches(send_keys(c.accept, c.value), c.value)

\* the page operations of a call succeed, at once or after a staleness or
\* timeout that the document-ready wait gets over
Succeeds(script) ==
    /\ \A i \in 1..Len(script) : script[i].fail # "other" /\ script[i].idle = "ok"
    /\ \E i \in 1..Len(script) : script[i].fail = "none"

\* C14: on a page that accepts the value, two calls of fill_text_with_retry
\* in a row with the same value both return True, and the element holds
\* after the second call what it held after the first.
C14_Idempotent ==
    (outcome.done /\ call.fn = "text_twice" /\ Accepting(call)) =>
        /\ (Succeeds(call.script) /\ Succeeds(call.script2)) =>
              outcome.first.ret = "True" /\ outcome.res.ret = "True"
        /\ (outcome.first.ret = "True" /\ outcome.res.ret = "True") =>
              outcome.res.page = outcome.first.page

\* both calls succeed on a page that pads its input and held other text,
\* the first after a stale element
C14_Witness ==
    /\ outcome.done
    /\ call.fn = "text_twice"
    /\ call.accept = "pad"
    /\ call.value = <<"a">>
    /\ call.page = <<"b">>
    /\ call.script[1].fail = "stale"
    /\ outcome.first.ret = "True"
    /\ outcome.res.ret = "True"
    /\ outcome.res.page = <<"a", " ">>

-----------------------------------------------------------------------------
(* Orchestrator: stop and phases *)

\* C15: the stop signal is consulted wherever the pause signal is: a worker
\* never passes a pause checkpoint to the operation behind it while stop is
\* set (once past the checkpoint the operation starts unconditionally).
C15_StopAtCheckpoints ==
    [][\A w \in Workers :
          (pc[w] \in PausePcs /\ pc'[w] \in OpPcs) => ~stop_event]_vars

PhaseRank(p) ==
    CASE p = "Idle"               -> 0
      [] p = "Navigating"         -> 1
      [] p = "UploadingDocuments" -> 2
      [] p = "FillingFields"      -> 3
      [] OTHER                    -> 4

\* C16: the phase of a run never moves back along Idle, Navigating,
\* UploadingDocuments, FillingFields, Complete; Complete and Stopped are
\* never left; the document slots are searched in the order 002, 003, 004
\* and the fields filled in mapping order; a stop_check() that finds the
\* stop signal set takes the run to Stopped, and nothing else does.
C16_PhaseForward ==
    /\ [](\A w \in Workers :
            /\ [i \in 1..Len(uploads) |-> uploads[i].code] = <<"002", "003", "004">>
            /\ Items(oplog[w], "search")
                 = [i \in 1..Len(Items(oplog[w], "search")) |-> i]
            /\ Increasing(Items(oplog[w], "upload"))
            /\ Increasing(Items(oplog[w], "field")))
    /\ [][\A w \in Workers :
            /\ PhaseRank(phase'[w]) >= PhaseRank(phase[w])
            /\ phase[w] \in {"Complete", "Stopped"} => phase'[w] = phase[w]
            /\ ( /\ stop_event
                 /\ pc'[w] # pc[w]
                 /\ \/ pc[w] = "doc_head"
                    \/ pc[w] = "field_head" /\ fld[w] <= Len(mapping) )
               => phase'[w] = "Stopped"
            /\ (phase'[w] = "Stopped" /\ phase[w] # "Stopped")
               => /\ stop_event
                  /\ phase[w] \in {"UploadingDocuments", "FillingFields"}]_vars

\* C16 witness: a run stopped among its document slots, after the search
\* for 002 and 003 and the upload of 002
C16_Witness ==
    \E w \in Workers :
        /\ phase[w] = "Stopped"
        /\ Items(oplog[w], "search") = <<1, 2>>
        /\ Items(oplog[w], "upload") = <<1>>
        /\ Items(oplog[w], "field") = <<>>

-----------------------------------------------------------------------------
(* Field Setter: retry shell *)

\* what the page makes of the value does not read back as the value
Mismatch(c) == strip(send_keys(c.accept, c.value)) # strip(c.value)

\* the drop-down shows an option without text and the value matches no
\* option, so that the selection read back is empty on every attempt
MismatchSelect(c) ==
    LET ap == apply_selection(c.options, c.selected, c.value)
    IN  ~ap.err /\ ap.sel # 0 /\ ~selection_verified(strip(c.options[ap.sel]), c.value)

\* the read-back of every attempt that goes through differs from the value
MismatchCall(c) ==
    \/ c.fn = "text" /\ Mismatch(c)
    \/ c.fn = "select" /\ MismatchSelect(c)

\* every attempt of the script either goes through (and its read-back is
\* compared) or fails in the locator (NotFound)
VerifyOrNotFound(script) ==
    \A i \in 1..Len(script) : script[i].fail = "none" \/ script[i].at = "locate"

\* C17 as stated: a read-back mismatch and a locator NotFound are handled
\* alike: such attempts are retried up to the retry limit, and only then is
\* the warning logged and False returned.
C17_MismatchLikeNotFound ==
    ( /\ outcome.done
      /\ MismatchCall(call)
      /\ VerifyOrNotFound(call.script) ) =>
        /\ outcome.res.attempts = retries
        /\ outcome.res.ret = "False"
        /\ outcome.res.warn

\* C17 amended: a read-back mismatch is retried up to the retry limit; a
\* locator NotFound ends the loop at the attempt it happens in; either way
\* the warning is logged and False returned.
C17_MismatchRetriedNotFoundNot ==
    ( /\ outcome.done
      /\ MismatchCall(call)
      /\ VerifyOrNotFound(call.script) ) =>
        LET nf == first_option([i \in 1..retries |-> call.script[i].at = "locate"])
        IN  /\ outcome.res.attempts = IF nf = 0 THEN retries ELSE nf
            /\ outcome.res.ret = "False"
            /\ outcome.res.warn
            /\ nf # 0 => outcome.res.last_err = "RuntimeError"

\* C17 witness: a mismatch on the first attempt is retried, and the locator
\* failure of the second attempt ends the call
C17_Witness ==
    /\ outcome.done
    /\ call.fn = "text"
    /\ Mismatch(call)
    /\ call.script[1].fail = "none"
    /\ call.script[2].at = "locate"
    /\ outcome.res.attempts = 2
    /\ outcome.res.ret = "False"

\* C18: a Field Setter call makes at most retries attempts; an attempt
\* before the last that fails by staleness or timeout is followed by
\* another attempt; an attempt that fails otherwise is the last one, and
\* the call returns False.
C18_RetryShell ==
    (outcome.done /\ call.fn \in {"text", "select"}) =>
        /\ outcome.res.attempts <= retries
        /\ \A i \in 1..outcome.res.attempts :
            /\ (i < retries /\ call.script[i].fail \in Transient)
                  => outcome.res.attempts > i
            /\ call.script[i].fail = "other"
                  => outcome.res.attempts = i /\ outcome.res.ret = "False"

\* the dialogs of tkinter.messagebox
Dialogs == {"showinfo", "showerror"}

\* C19: the worker thread opens no dialog itself: whatever the worker shows
\* goes to the GUI thread through after, as its status updates and the
\* disabling of the buttons do.
C19_WorkerMarshalsGui == \A w \in Workers : direct[w] \cap Dialogs = {}

\* C20: a run whose fill_otms_form ended in Stopped reports no completion
\* afterwards: from its return on, the last status the worker emitted is
\* the stopped status.
C20_DoneOnlyWhenComplete ==
    \A w \in Workers :
        (phase[w] = "Stopped" /\ pc[w] \in {"finally", "finished"})
            => emitted[w] = "Stopped"

\* C21: the label of the pause button agrees with the pause flag: it reads
\* "Resume" exactly when pause_event is cleared and "Pause" exactly when it
\* is set.
C21_LabelAgreesWithFlag ==
    /\ pause_btn.text = "Resume" <=> ~pause_event
    /\ pause_btn.text = "Pause" <=> pause_event

\* C22: while a worker thread started by App.run has not ended, the Stop
\* and Pause buttons are enabled.
C22_RunningCanBeStopped ==
    (\E w \in Workers : Running(w)) =>
        stop_btn = "normal" /\ pause_btn.state = "normal"
=============================================================================
